---- MODULE Spec2Model ----
(***************************************************************************)
(* Model of the CSS lexer of package csslex (lex.go).                      *)
(*                                                                         *)
(* The input is a Go string, i.e. a sequence of bytes.  A byte is written  *)
(* as a one-character string; the two bytes "C3" and "A9" are the UTF-8    *)
(* encoding of U+00E9, the only multi-byte code point of the model.        *)
(* The lexer goroutine is the state machine below: pc is its position,     *)
(* "run" being the head of the loop of lexer.run, "send" the channel send  *)
(* of emit/errorf (the channel is unbuffered, so the goroutine stays there *)
(* until the consumer receives), the other values the statement of a state *)
(* function at which the goroutine resumes after a send.                   *)
(***************************************************************************)
EXTENDS Integers, Sequences, FiniteSets, TLC

VARIABLES input, start, pos, inBlock, inAtBlock, lstate, state, pc, r,
          item, cont, received, dropped, consumer

(* input, start, pos, inBlock, inAtBlock: the fields of lexer (lstate is   *)
(*   its field state, the state function run called before the current     *)
(*   one).                                                                 *)
(* state: the local variable state of run, the state function to call.     *)
(* r: the local variable r of lexSelector, lexBlock and lexAtRule.         *)
(* item, cont: the Item the goroutine is sending, and where it resumes.    *)
(* received: the Items the consumer has received from the channel, the     *)
(*   first MaxItems of them; dropped tells that more were received.        *)
(* consumer: "recv" while the consumer receives, "gone" once it stopped.   *)

vars == <<input, start, pos, inBlock, inAtBlock, lstate, state, pc, r,
          item, cont, received, dropped, consumer>>

lexerVars == <<input, start, pos, inBlock, inAtBlock, lstate, state, pc, r,
               item, cont>>

-----------------------------------------------------------------------------
(* Bounds of the model.                                                    *)

MaxLen == 3

MaxStmts == 2

MaxRules == 2

MaxAtRules == 1

MaxItems == 20

MaxLiveLen == 2

MaxPieces == 2

MaxParts == 3

-----------------------------------------------------------------------------
(* Constants of lex.go.                                                    *)

eof == "eof"

NUL == "NUL"

RuneError == "U+FFFD"

RuneE9 == "U+00E9"

atRuleStart == "@"

selectorSep == ","

ruleSep == ":"

openBlock == "{"

closeBlock == "}"

spaceChars == {" ", "\t", "\n", "\r"}

ItemError == "Error"

ItemSelector == "Selector"

ItemDecl == "Declaration"

ItemBlockStart == "BlockStart"

ItemBlockEnd == "BlockEnd"

ItemAtRuleIdent == "AtRuleIdent"

ItemAtRule == "AtRuleBody"

ItemAtRuleBlockStart == "AtRuleBlockStart"

ItemAtRuleBlockEnd == "AtRuleBlockEnd"

nil == "nil"

-----------------------------------------------------------------------------
(* Strings: s[a:b], strings.Trim, strings.Index, strings.IndexRune,        *)
(* strings.HasPrefix, utf8.DecodeRuneInString.  Offsets are 0-based.       *)

Slice(s, a, b) == SubSeq(s, a + 1, b)

RECURSIVE TrimLeft(_)
TrimLeft(s) ==
    IF s # <<>> /\ Head(s) \in spaceChars THEN TrimLeft(Tail(s)) ELSE s

RECURSIVE TrimRight(_)
TrimRight(s) ==
    IF s # <<>> /\ s[Len(s)] \in spaceChars
    THEN TrimRight(SubSeq(s, 1, Len(s) - 1))
    ELSE s

Trim(s) == TrimRight(TrimLeft(s))

HasPrefix2(s, p, c1, c2) ==
    /\ p + 2 <= Len(s)
    /\ s[p + 1] = c1
    /\ s[p + 2] = c2

Index2After(s, p, c1, c2) ==
    LET hits == {i \in 1..(Len(s) - p) : HasPrefix2(s, p + i, c1, c2)}
    IN  IF hits = {} THEN -1 ELSE CHOOSE i \in hits : \A j \in hits : i <= j

\* strings.Index(s[p:], c1 c2): offset of the first occurrence, -1 if none
Index2(s, p, c1, c2) ==
    LET hits == {i \in 0..(Len(s) - p) : HasPrefix2(s, p + i, c1, c2)}
    IN  IF hits = {} THEN -1 ELSE CHOOSE i \in hits : \A j \in hits : i <= j

\* strings.IndexRune(s[p:], c) for an ASCII c: offset of the first byte c
IndexRune(s, p, c) ==
    LET hits == {i \in 0..(Len(s) - p - 1) : s[p + i + 1] = c}
    IN  IF hits = {} THEN -1 ELSE CHOOSE i \in hits : \A j \in hits : i <= j

ContainsRune(s, c) == \E i \in 1..Len(s) : s[i] = c

\* utf8.DecodeRuneInString(s[p:]) for p < len(s)
DecodeRune(s, p) ==
    IF s[p + 1] = "C3"
    THEN IF p + 2 <= Len(s) /\ s[p + 2] = "A9"
         THEN [r |-> RuneE9, w |-> 2]
         ELSE [r |-> RuneError, w |-> 1]
    ELSE IF s[p + 1] = "A9"
         THEN [r |-> RuneError, w |-> 1]
         ELSE [r |-> s[p + 1], w |-> 1]

-----------------------------------------------------------------------------
(* Cursor primitives of the lexer, as functions of the scan position.      *)

\* lexer.next: the rune at p and the position after it
next(p) ==
    IF p >= Len(input)
    THEN [r |-> eof, pos |-> p]
    ELSE [r |-> DecodeRune(input, p).r, pos |-> p + DecodeRune(input, p).w]

\* lexer.backup
backup(p) == p - 1

\* lexer.ignoreSpace: the position it leaves in pos and in start
RECURSIVE ignoreSpace(_)
ignoreSpace(p) ==
    IF next(p).r \in spaceChars
    THEN ignoreSpace(next(p).pos)
    ELSE backup(next(p).pos)

\* lexer.untilRun: the loop, entered with the rune read last
RECURSIVE untilRunLoop(_, _, _)
untilRunLoop(chars, c, p) ==
    IF c # eof /\ c \notin chars
    THEN untilRunLoop(chars, next(p).r, next(p).pos)
    ELSE [r |-> c, pos |-> backup(p)]

untilRun(chars, p) == untilRunLoop(chars, NUL, p)

\* the deferred func of lexSelector, lexBlock and lexAtRule
deferred(p) == ignoreSpace(next(p).pos)

\* the Item built by emit; brace is auxiliary: the offset of the '}' that
\* the item closes, -1 when it closes none
NewItem(t, st, p, brace) ==
    [typ |-> t, pos |-> st, val |-> Trim(Slice(input, st, p)),
     brace |-> brace]

\* the Item built by errorf
ErrorItem(msg) ==
    [typ |-> ItemError, pos |-> start, val |-> <<msg>>, brace |-> -1]

NoItem == [typ |-> "none", pos |-> 0, val |-> <<>>, brace |-> -1]

errorfReturnsState == "lexAny"

\* the state errorf hands back to run
errorfReturn == nil

HasRuleSepAlways(s) == TRUE

\* lexBlock's test of the pending span for a rule separator
HasRuleSep(s) == ContainsRune(s, ruleSep)

-----------------------------------------------------------------------------
(* Steps shared by the state functions.                                    *)

ReturnAsState(s) ==
    /\ state' = s
    /\ lstate' = s
    /\ pc' = "run"
    /\ r' = NUL
    /\ item' = NoItem
    /\ cont' = "none"

\* run, lines 70-72: the state function returned s
Return(s) ==
    /\ state' = s
    /\ lstate' = state
    /\ pc' = "run"
    /\ r' = NUL
    /\ item' = NoItem
    /\ cont' = "none"

\* the goroutine reaches the channel send of emit with item i, and resumes
\* at k once the item is received
Offer(i, k) ==
    /\ item' = i
    /\ cont' = k
    /\ pc' = "send"
    /\ UNCHANGED <<state, lstate>>

\* the goroutine reaches the channel send of errorf
Fail(msg) ==
    /\ Offer(ErrorItem(msg), "errorf")
    /\ UNCHANGED <<start, inBlock, inAtBlock, r>>

Deliver ==
    /\ received' = IF Len(received) < MaxItems
                   THEN Append(received, item)
                   ELSE received
    /\ dropped' = (dropped \/ Len(received) >= MaxItems)

consumerVars == <<received, dropped, consumer>>

-----------------------------------------------------------------------------
(* The state functions.                                                    *)

\* lexAny's loop over space characters: the position of the first rune
\* that is not one
RECURSIVE SkipSpace(_)
SkipSpace(p) ==
    IF next(p).r \in spaceChars THEN SkipSpace(next(p).pos) ELSE p

\* lexAny, from the head of its loop to its return or to the send of
\* ItemAtRuleBlockEnd
LexAny ==
    /\ \/ pc = "run" /\ state = "lexAny"
       \/ pc = "lexAny:157"
    /\ LET p  == SkipSpace(pos)
           st == IF p > pos THEN p ELSE start
           nx == next(p)
       IN  IF nx.r = eof
           THEN /\ pos' = p
                /\ start' = st
                /\ Return(nil)
                /\ UNCHANGED <<inBlock, inAtBlock>>
           ELSE IF nx.r = closeBlock /\ inAtBlock /\ ~inBlock
           THEN /\ inAtBlock' = FALSE
                /\ pos' = nx.pos
                /\ start' = nx.pos
                /\ Offer(NewItem(ItemAtRuleBlockEnd, nx.pos, nx.pos,
                                 nx.pos - 1), "lexAny:157")
                /\ UNCHANGED <<inBlock, r>>
           ELSE /\ pos' = backup(nx.pos)
                /\ start' = st
                /\ Return(IF HasPrefix2(input, backup(nx.pos), "/", "*")
                          THEN "lexComment"
                          ELSE IF nx.r = atRuleStart
                               THEN "lexAtRuleIdent"
                               ELSE "lexSelector")
                /\ UNCHANGED <<inBlock, inAtBlock>>
    /\ UNCHANGED <<input, consumerVars>>

LexComment ==
    /\ pc = "run" /\ state = "lexComment"
    /\ LET p == pos + 2
           i == Index2(input, p, "*", "/")
       IN  IF i < 0
           THEN /\ pos' = p
                /\ Fail("unclosed comment")
           ELSE /\ pos' = p + i + 2
                /\ start' = p + i + 2
                /\ Return(lstate)
                /\ UNCHANGED <<inBlock, inAtBlock>>
    /\ UNCHANGED <<input, consumerVars>>

\* lexSelector, lines 185-193
LexSelector ==
    /\ pc = "run" /\ state = "lexSelector"
    /\ LET u == untilRun({selectorSep, openBlock}, pos)
       IN  /\ pos' = u.pos
           /\ IF u.r = eof
              THEN /\ Return(nil)
              ELSE /\ r' = u.r
                   /\ Offer(NewItem(ItemSelector, start, u.pos, -1),
                            "lexSelector:194")
    /\ UNCHANGED <<input, start, inBlock, inAtBlock, consumerVars>>

\* lexSelector, lines 194-198, and the deferred func when it returns
LexSelector194 ==
    /\ pc = "lexSelector:194"
    /\ IF r = selectorSep
       THEN /\ pos' = deferred(pos)
            /\ start' = deferred(pos)
            /\ Return("lexSelector")
            /\ UNCHANGED inBlock
       ELSE /\ inBlock' = TRUE
            /\ Offer(NewItem(ItemBlockStart, start, pos, -1),
                     "lexSelector:199")
            /\ UNCHANGED <<start, pos, r>>
    /\ UNCHANGED <<input, inAtBlock, consumerVars>>

\* lexSelector, line 199 and the deferred func
LexSelector199 ==
    /\ pc = "lexSelector:199"
    /\ pos' = deferred(pos)
    /\ start' = deferred(pos)
    /\ Return("lexBlock")
    /\ UNCHANGED <<input, inBlock, inAtBlock, consumerVars>>

\* lexBlock, lines 204-214
LexBlock ==
    /\ pc = "run" /\ state = "lexBlock"
    /\ LET u == untilRun({";", closeBlock}, pos)
       IN  /\ pos' = u.pos
           /\ IF u.r = eof
              THEN Fail("unclosed block")
              ELSE /\ r' = u.r
                   /\ IF HasRuleSep(Slice(input, start, u.pos))
                      THEN Offer(NewItem(ItemDecl, start, u.pos, -1),
                                 "lexBlock:215")
                      ELSE /\ pc' = "lexBlock:215"
                           /\ UNCHANGED <<item, cont, state, lstate>>
                   /\ UNCHANGED <<start, inBlock, inAtBlock>>
    /\ UNCHANGED <<input, consumerVars>>

\* lexBlock, lines 215-220, and the deferred func when it returns
LexBlock215 ==
    /\ pc = "lexBlock:215"
    /\ IF r = closeBlock
       THEN /\ inBlock' = FALSE
            /\ Offer(NewItem(ItemBlockEnd, start, pos, pos), "lexBlock:218")
            /\ UNCHANGED <<start, pos, r>>
       ELSE /\ pos' = deferred(pos)
            /\ start' = deferred(pos)
            /\ Return("lexBlock")
            /\ UNCHANGED inBlock
    /\ UNCHANGED <<input, inAtBlock, consumerVars>>

afterBlockEndStays == "lexBlock"

\* lexBlock, line 218: the state returned once BlockEnd has been emitted
afterBlockEnd == "lexAny"

\* lexBlock, line 218 and the deferred func
LexBlock218 ==
    /\ pc = "lexBlock:218"
    /\ pos' = deferred(pos)
    /\ start' = deferred(pos)
    /\ Return(afterBlockEnd)
    /\ UNCHANGED <<input, inBlock, inAtBlock, consumerVars>>

\* lexAtRuleIdent, lines 225-230
LexAtRuleIdent ==
    /\ pc = "run" /\ state = "lexAtRuleIdent"
    /\ LET i == IndexRune(input, pos, " ")
       IN  IF i < 1
           THEN /\ Fail("missing at-rule ident")
                /\ UNCHANGED pos
           ELSE /\ pos' = pos + i
                /\ Offer(NewItem(ItemAtRuleIdent, start, pos + i, -1),
                         "lexAtRuleIdent:231")
                /\ UNCHANGED <<start, inBlock, inAtBlock, r>>
    /\ UNCHANGED <<input, consumerVars>>

\* lexAtRuleIdent, lines 231-232
LexAtRuleIdent231 ==
    /\ pc = "lexAtRuleIdent:231"
    /\ pos' = ignoreSpace(pos)
    /\ start' = ignoreSpace(pos)
    /\ Return("lexAtRule")
    /\ UNCHANGED <<input, inBlock, inAtBlock, consumerVars>>

missingBodyNever(c) == FALSE

\* lexAtRule, line 238: the scan for ';' or '{' ran into the end of input
missingBody(c) == c = eof

\* lexAtRule, lines 237-250
LexAtRule ==
    /\ pc = "run" /\ state = "lexAtRule"
    /\ LET u == untilRun({";", openBlock}, pos)
       IN  /\ pos' = u.pos
           /\ IF missingBody(u.r)
              THEN /\ Fail("missing at-rule body")
              ELSE /\ r' = u.r
                   /\ inAtBlock' = (inAtBlock \/ u.r = openBlock)
                   /\ IF u.r = openBlock
                      THEN Offer(NewItem(ItemAtRuleBlockStart, start, u.pos,
                                         -1), "lexAtRule:248")
                      ELSE Offer(NewItem(ItemAtRule, start, u.pos, -1),
                                 "lexAtRule:251")
                   /\ UNCHANGED <<start, inBlock>>
    /\ UNCHANGED <<input, consumerVars>>

\* lexAtRule, line 248 or 251, and the deferred func
LexAtRuleReturn ==
    /\ pc \in {"lexAtRule:248", "lexAtRule:251"}
    /\ pos' = deferred(pos)
    /\ start' = deferred(pos)
    /\ Return(IF pc = "lexAtRule:248" THEN "lexSelector" ELSE "lexAny")
    /\ UNCHANGED <<input, inBlock, inAtBlock, consumerVars>>

-----------------------------------------------------------------------------
(* The channel and the consumer.                                           *)

emitKeepsStart ==
    /\ pc = "send" /\ cont # "errorf"
    /\ consumer = "recv"
    /\ Deliver
    /\ pc' = cont
    /\ item' = NoItem
    /\ cont' = "none"
    /\ UNCHANGED <<input, start, pos, inBlock, inAtBlock, lstate, state, r,
                   consumer>>

\* emit, lines 80-81: the consumer receives the item, then start = pos
emit ==
    /\ pc = "send" /\ cont # "errorf"
    /\ consumer = "recv"
    /\ Deliver
    /\ start' = pos
    /\ pc' = cont
    /\ item' = NoItem
    /\ cont' = "none"
    /\ UNCHANGED <<input, pos, inBlock, inAtBlock, lstate, state, r,
                   consumer>>

\* errorf, lines 125-126: the consumer receives the error item, then the
\* state function returns what errorf returns
errorf ==
    /\ pc = "send" /\ cont = "errorf"
    /\ consumer = "recv"
    /\ Deliver
    /\ Return(errorfReturn)
    /\ UNCHANGED <<input, start, pos, inBlock, inAtBlock, consumer>>

\* run, line 74
Close ==
    /\ pc = "run" /\ state = nil
    /\ pc' = "closed"
    /\ UNCHANGED <<input, start, pos, inBlock, inAtBlock, lstate, state, r,
                   item, cont, consumerVars>>

\* the consumer stops receiving from the channel
Abandon ==
    /\ consumer = "recv"
    /\ pc # "closed"
    /\ consumer' = "gone"
    /\ UNCHANGED <<lexerVars, received, dropped>>

-----------------------------------------------------------------------------
(* The inputs.                                                             *)

Alphabet ==
    {"a", " ", "\n", "{", "}", ";", ",", ":", "@", "/", "*", "C3", "A9"}

ShortInputs == UNION {[1..n -> Alphabet] : n \in 0..MaxLen}

Join(S, T) == {s \o t : s \in S, t \in T}

Selectors == {<<"a">>, <<"c", " ">>}

Statements == {<<>>, <<"b", ":", "1">>, <<" ", "e", " ">>}

RECURSIVE Bodies(_)
Bodies(n) ==
    IF n = 1
    THEN Statements
    ELSE Join(Join(Bodies(n - 1), {<<";">>}), Statements)

Rules ==
    Join(Join(Join(Selectors, {<<"{">>}),
              UNION {Bodies(n) : n \in 1..MaxStmts}),
         {<<"}">>})

RECURSIVE RuleLists(_)
RuleLists(n) == IF n = 0 THEN {<<>>} ELSE Join(RuleLists(n - 1), Rules)

RuleInputs == UNION {RuleLists(n) : n \in 0..MaxRules}

AtRuleHeads ==
    {<<"@", "m", " ", "p">>, <<"@", " ", "x">>, <<"@", "m", " ">>,
     <<"@", "m">>, <<"@", "m", "\n", "p">>}

AtRuleTails ==
    {<<>>, <<";">>, <<";", "a", "{", "}">>}
    \cup Join(Join({<<"{">>, <<" ", "{", " ">>},
                   UNION {RuleLists(n) : n \in 0..MaxAtRules}),
              {<<>>, <<"}">>, <<" ", "}", " ">>, <<"}", "c", "{", "}">>})

AtRuleInputs == Join(AtRuleHeads, AtRuleTails)

\* inputs of the tests of lex.go, and inputs in their style
\* 'a{b:1}c{d:2}'
RoundTripCSS ==
    <<"a", "{", "b", ":", "1", "}", "c", "{", "d", ":", "2", "}">>

\* 'body {\n  background-image: url(data:image/png;base64,iVB);\n}\n'
DataURLCSS ==
    <<"b", "o", "d", "y", " ", "{", "\n", " ", " ", "b", "a", "c", "k",
      "g", "r", "o", "u", "n", "d", "-", "i", "m", "a", "g", "e", ":", " ",
      "u", "r", "l", "(", "d", "a", "t", "a", ":", "i", "m", "a", "g", "e",
      "/", "p", "n", "g", ";", "b", "a", "s", "e", "6", "4", ",", "i", "V",
      "B", ")", ";", "\n", "}", "\n">>

\* '/* c **/\n@media print {\n  body { font-size: 10pt }\n}\n.c1{color:red}'
MediaCSS ==
    <<"/", "*", " ", "c", " ", "*", "*", "/", "\n", "@", "m", "e", "d",
      "i", "a", " ", "p", "r", "i", "n", "t", " ", "{", "\n", " ", " ",
      "b", "o", "d", "y", " ", "{", " ", "f", "o", "n", "t", "-", "s", "i",
      "z", "e", ":", " ", "1", "0", "p", "t", " ", "}", "\n", "}", "\n",
      ".", "c", "1", "{", "c", "o", "l", "o", "r", ":", "r", "e", "d", "}">>

\* '/**/@x y;/* c */ a , b{}'
ImportCSS ==
    <<"/", "*", "*", "/", "@", "x", " ", "y", ";", "/", "*", " ", "c", " ",
      "*", "/", " ", "a", " ", ",", " ", "b", "{", "}">>

\* 'é{é:1;b:é}'
NonASCIICSS ==
    <<"C3", "A9", "{", "C3", "A9", ":", "1", ";", "b", ":", "C3", "A9",
      "}">>

\* 'a{;;b:1;;}'
EmptyStatementsCSS ==
    <<"a", "{", ";", ";", "b", ":", "1", ";", ";", "}">>

\* '@m p{a{}/**//* c*/}/**/b{}'
AtBlockCommentsCSS ==
    <<"@", "m", " ", "p", "{", "a", "{", "}", "/", "*", "*", "/", "/", "*",
      " ", "c", "*", "/", "}", "/", "*", "*", "/", "b", "{", "}">>

Samples ==
    {RoundTripCSS, DataURLCSS, MediaCSS, ImportCSS, NonASCIICSS,
     EmptyStatementsCSS, AtBlockCommentsCSS}

\* white space and closed comments, then nothing, an open comment or a rule
Pieces ==
    {<<" ">>, <<"\t">>, <<"\n">>, <<"\r">>, <<"/", "*", "*", "/">>,
     <<"/", "*", " ", "c", "*", "*", "/">>}

RECURSIVE PieceLists(_)
PieceLists(n) == IF n = 0 THEN {<<>>} ELSE Join(PieceLists(n - 1), Pieces)

CommentTails ==
    {<<>>, <<"/", "*">>, <<"/", "*", " ", "c">>, <<"/", "*", "/">>,
     <<"a", "{", "}">>, <<"a", "{", "}", "/", "*", "*">>,
     <<"a", "/", "*">>, <<"a", "{", "/", "*">>}

CommentInputs ==
    Join(UNION {PieceLists(n) : n \in 0..MaxPieces}, CommentTails)

\* selector lists of up to MaxParts parts, followed by one block
Parts == {<<"a">>, <<" ", "c", " ">>, <<"C3", "A9">>}

RECURSIVE PartLists(_)
PartLists(n) ==
    IF n = 1
    THEN Parts
    ELSE Join(Join(PartLists(n - 1), {<<",">>}), Parts)

SelectorListInputs ==
    Join(UNION {PartLists(n) : n \in 1..MaxParts},
         {<<"{", "}">>, <<"{", "b", ":", "1", "}">>})

\* at-rules '@ident body;' with nothing after the ';'
AtRuleStatementInputs ==
    Join(Join({<<"@", "x", " ">>, <<"@", "m", " ", " ">>,
               <<"@", "C3", "A9", " ">>},
              {<<>>, <<"y">>, <<"y", " ", "z", "\n">>, <<"C3", "A9">>,
               <<"a", ":", "C3", "A9">>}),
         {<<";">>})

Inputs ==
    ShortInputs \cup RuleInputs \cup AtRuleInputs \cup Samples
    \cup CommentInputs \cup SelectorListInputs \cup AtRuleStatementInputs

-----------------------------------------------------------------------------

\* Lex, lines 49-56, and the first line of run
Init ==
    /\ input \in Inputs
    /\ start = 0
    /\ pos = 0
    /\ inBlock = FALSE
    /\ inAtBlock = FALSE
    /\ lstate = nil
    /\ state = "lexAny"
    /\ pc = "run"
    /\ r = NUL
    /\ item = NoItem
    /\ cont = "none"
    /\ received = <<>>
    /\ dropped = FALSE
    /\ consumer = "recv"

Next ==
    \/ LexAny
    \/ LexComment
    \/ LexSelector
    \/ LexSelector194
    \/ LexSelector199
    \/ LexBlock
    \/ LexBlock215
    \/ LexBlock218
    \/ LexAtRuleIdent
    \/ LexAtRuleIdent231
    \/ LexAtRule
    \/ LexAtRuleReturn
    \/ emit
    \/ errorf
    \/ Close
    \/ Abandon

Spec == Init /\ [][Next]_vars

\* the Go scheduler runs a goroutine that can run, and a consumer that has
\* not stopped receives what is sent to it
Lexer ==
    \/ LexAny
    \/ LexComment
    \/ LexSelector
    \/ LexSelector194
    \/ LexSelector199
    \/ LexBlock
    \/ LexBlock215
    \/ LexBlock218
    \/ LexAtRuleIdent
    \/ LexAtRuleIdent231
    \/ LexAtRule
    \/ LexAtRuleReturn
    \/ emit
    \/ errorf
    \/ Close

\* the inputs of the specification with fairness
LiveInputs ==
    {s \in ShortInputs : Len(s) <= MaxLiveLen}
    \cup {t \in AtRuleInputs : Len(t) <= MaxLiveLen + 6}
    \cup {<<"a", "{", ";">>, <<"a", "{", "b", ":", "1", ";">>,
          RoundTripCSS, ImportCSS}

LiveInit == Init /\ input \in LiveInputs

FairSpec == LiveInit /\ [][Next]_vars /\ WF_vars(Lexer)

-----------------------------------------------------------------------------
(* Properties.                                                             *)

Closed == pc = "closed"

LastIs(t) == received # <<>> /\ received[Len(received)].typ = t

LastIsError(msg) ==
    /\ LastIs(ItemError)
    /\ received[Len(received)].val = <<msg>>

Positions(t) == {i \in 1..Len(received) : received[i].typ = t}

Kinds(s) == [i \in 1..Len(s) |-> s[i].typ]

\* the kinds of the items of s, with the texts of all but the block marks
Texts(s) ==
    [i \in 1..Len(s) |->
        [typ |-> s[i].typ,
         val |-> IF s[i].typ \in {ItemBlockStart, ItemBlockEnd}
                 THEN <<>>
                 ELSE s[i].val]]

IsPrefix(s, t) == Len(s) <= Len(t) /\ s = SubSeq(t, 1, Len(s))

\* run has left its loop
Done == Closed \/ (pc = "run" /\ state = nil)

Tok(t, v) == [typ |-> t, val |-> v]

-----------------------------------------------------------------------------
(* The stream a style sheet stands for, read off the text of the input     *)
(* without the lexer: rules 'selector { statement ; ... }', the statements *)
(* of a block separated by the ';' outside parentheses.                    *)

FirstIdx(s, c) ==
    LET hits == {i \in 1..Len(s) : s[i] = c}
    IN  IF hits = {} THEN 0 ELSE CHOOSE i \in hits : \A j \in hits : i <= j

Count(s, c) == Cardinality({i \in 1..Len(s) : s[i] = c})

Until(s, i) == SubSeq(s, 1, i - 1)

After(s, i) == SubSeq(s, i + 1, Len(s))

ParenDepth(s, i) == Count(Until(s, i), "(") - Count(Until(s, i), ")")

StatementEnd(s) ==
    LET hits == {i \in 1..Len(s) : s[i] = ";" /\ ParenDepth(s, i) = 0}
    IN  IF hits = {} THEN 0 ELSE CHOOSE i \in hits : \A j \in hits : i <= j

RECURSIVE StatementsOf(_)
StatementsOf(body) ==
    IF StatementEnd(body) = 0
    THEN <<body>>
    ELSE <<Until(body, StatementEnd(body))>>
         \o StatementsOf(After(body, StatementEnd(body)))

ValidUTF8(s) ==
    \A i \in 1..Len(s) :
        /\ s[i] = "C3" => (i < Len(s) /\ s[i + 1] = "A9")
        /\ s[i] = "A9" => (i > 1 /\ s[i - 1] = "C3")

Ascii(s) == \A i \in 1..Len(s) : s[i] \notin {"C3", "A9"}

NoComment(s) == \A i \in 1..(Len(s) - 1) : ~(s[i] = "/" /\ s[i + 1] = "*")

SelectorText(s) ==
    /\ Trim(s) # <<>>
    /\ \A i \in 1..Len(s) : s[i] \notin {"{", "}", ";", ",", "@", "(", ")"}
    /\ NoComment(s)
    /\ ValidUTF8(s)

StatementText(s) ==
    /\ \A i \in 1..Len(s) : s[i] \notin {"{", "}", "@"}
    /\ Count(s, "(") = Count(s, ")")
    /\ \A i \in 1..Len(s) : ParenDepth(s, i) >= 0
    /\ NoComment(s)
    /\ ValidUTF8(s)

BodyText(b) ==
    \A k \in 1..Len(StatementsOf(b)) : StatementText(StatementsOf(b)[k])

RECURSIVE WellFormed(_)
WellFormed(s) ==
    IF Trim(s) = <<>>
    THEN TRUE
    ELSE LET i == FirstIdx(s, "{")
             j == FirstIdx(s, "}")
         IN  /\ i > 1
             /\ j > i
             /\ SelectorText(Until(s, i))
             /\ BodyText(SubSeq(s, i + 1, j - 1))
             /\ WellFormed(After(s, j))

RECURSIVE DeclarationsOf(_)
DeclarationsOf(stmts) ==
    IF stmts = <<>>
    THEN <<>>
    ELSE (IF FirstIdx(Head(stmts), ":") > 0
          THEN <<Tok(ItemDecl, Trim(Head(stmts)))>>
          ELSE <<>>)
         \o DeclarationsOf(Tail(stmts))

RECURSIVE Expected(_)
Expected(s) ==
    IF Trim(s) = <<>>
    THEN <<>>
    ELSE LET i == FirstIdx(s, "{")
             j == FirstIdx(s, "}")
         IN  <<Tok(ItemSelector, Trim(Until(s, i))), Tok(ItemBlockStart, <<>>)>>
             \o DeclarationsOf(StatementsOf(SubSeq(s, i + 1, j - 1)))
             \o <<Tok(ItemBlockEnd, <<>>)>>
             \o Expected(After(s, j))

NoParens(s) == Count(s, "(") = 0 /\ Count(s, ")") = 0

\* the '}' of s that closes a block opened before s
CloseIdx(s) ==
    LET hits == {i \in 1..Len(s) :
                    /\ s[i] = "}"
                    /\ Count(Until(s, i), "{") = Count(Until(s, i), "}")}
    IN  IF hits = {} THEN 0 ELSE CHOOSE i \in hits : \A j \in hits : i <= j

\* '@ident body { rules } rules'
AtBlockInput(s) ==
    LET i == FirstIdx(s, " ")
        j == FirstIdx(s, "{")
        k == CloseIdx(After(s, j))
    IN  /\ s # <<>> /\ s[1] = "@"
        /\ i > 2
        /\ \A n \in 2..(i - 1) : s[n] \notin spaceChars \cup {"{", "}", ";"}
        /\ j > i
        /\ \A n \in i..(j - 1) : s[n] \notin {"}", ";", "@"}
        /\ k > 0
        /\ WellFormed(Until(After(s, j), k))
        /\ WellFormed(After(After(s, j), k))

ExpectedAtBlock(s) ==
    LET i == FirstIdx(s, " ")
        j == FirstIdx(s, "{")
        k == CloseIdx(After(s, j))
    IN  <<Tok(ItemAtRuleIdent, Until(s, i)),
          Tok(ItemAtRuleBlockStart, Trim(SubSeq(s, i + 1, j - 1)))>>
        \o Expected(Until(After(s, j), k))
        \o <<Tok(ItemAtRuleBlockEnd, <<>>)>>
        \o Expected(After(After(s, j), k))

\* the '@' at offset k is followed by an identifier that is not empty and
\* by a space after it
IdentPresent(k) ==
    /\ k + 2 <= Len(input)
    /\ input[k + 2] # " "
    /\ \E j \in (k + 3)..Len(input) : input[j] = " "

-----------------------------------------------------------------------------

\* C1: an Error item is the last item of the stream: once one is delivered
\* nothing is delivered after it, no send is pending and the loop of run
\* has no next state, so the only step left is closing the channel.
C1_ErrorIsLast ==
    \A i \in Positions(ItemError) :
        /\ i = Len(received)
        /\ ~dropped
        /\ state = nil
        /\ pc \in {"run", "closed"}

C1_Witness == Closed /\ LastIs(ItemError) /\ Len(received) > 1

\* C2: with a consumer that keeps receiving, the run terminates: the
\* channel is eventually closed (unless the consumer has stopped).
C2_Terminates == <>(Closed \/ consumer = "gone")

\* C3: no '}' of the input yields both a BlockEnd and an AtRuleBlockEnd.
C3_OneEndPerBrace ==
    \A i \in Positions(ItemBlockEnd) : \A j \in Positions(ItemAtRuleBlockEnd) :
        received[i].brace # received[j].brace

\* C4: for a well-formed input of rules 'selector { decl: val; ... }' the
\* stream is, rule after rule, Selector, BlockStart, one Declaration per
\* statement with a colon in source order, BlockEnd, and nothing else: the
\* items delivered are at any time a prefix of these, and all of them when
\* run leaves its loop; the texts are the trimmed selector and statements.
C4_RuleStream ==
    (WellFormed(input) /\ NoParens(input)) =>
        /\ ~dropped
        /\ IsPrefix(Kinds(received), Kinds(Expected(input)))
        /\ Done => Kinds(received) = Kinds(Expected(input))
        /\ (Done /\ Ascii(input)) => Texts(received) = Expected(input)

C4_Witness ==
    /\ Closed
    /\ input = RoundTripCSS
    /\ Texts(received) =
        <<Tok(ItemSelector, <<"a">>), Tok(ItemBlockStart, <<>>),
          Tok(ItemDecl, <<"b", ":", "1">>), Tok(ItemBlockEnd, <<>>),
          Tok(ItemSelector, <<"c">>), Tok(ItemBlockStart, <<>>),
          Tok(ItemDecl, <<"d", ":", "2">>), Tok(ItemBlockEnd, <<>>)>>

\* C5: a ';' inside the parentheses of a value does not end the
\* declaration: for a well-formed input with such a ';' the stream is the
\* one of its rules, each statement running up to the ';' outside the
\* parentheses.
C5_ParenthesisedSemicolon ==
    (WellFormed(input) /\ Ascii(input) /\ ~NoParens(input) /\ Done) =>
        Texts(received) = Expected(input)

\* C6: when the input ends inside a block (a block is open and no '}' is
\* left to read), the run ends with the Error item 'unclosed block'.
C6_UnclosedBlock ==
    (inBlock /\ \A i \in (pos + 1)..Len(input) : input[i] # closeBlock)
        ~> ((Closed /\ LastIsError("unclosed block")) \/ consumer = "gone")

\* C7: the text of every BlockStart and of every BlockEnd item is empty.
C7_BlockMarksEmpty ==
    \A i \in Positions(ItemBlockStart) \cup Positions(ItemBlockEnd) :
        received[i].val = <<>>

\* C8: an '@' that is not followed by a non-empty identifier and a space
\* yields no AtRuleIdent item; what the lexer sends for it is the Error
\* item 'missing at-rule ident'.
C8_MissingIdent ==
    /\ \A i \in Positions(ItemAtRuleIdent) : IdentPresent(received[i].pos)
    /\ (pc = "send" /\ state = "lexAtRuleIdent" /\ ~IdentPresent(start)) =>
           item = [typ |-> ItemError, pos |-> start,
                   val |-> <<"missing at-rule ident">>, brace |-> -1]

\* C9: for '@ident body { rules }' with zero or more well-formed rules the
\* stream is AtRuleIdent, AtRuleBlockStart with the trimmed body, the items
\* of the rules, one AtRuleBlockEnd, then the items of what follows, and
\* inAtBlock is cleared.
C9_AtRuleBlock ==
    (AtBlockInput(input) /\ Ascii(input) /\ NoParens(input) /\ Done) =>
        /\ Texts(received) = ExpectedAtBlock(input)
        /\ ~inAtBlock

\* C10: once the consumer has stopped receiving, the goroutine started by
\* Lex still completes: run returns, having closed the channel.
C10_NoLeak == (consumer = "gone") ~> Closed

-----------------------------------------------------------------------------
(* Comments, read off the text of the input.                               *)

\* the index in s of the '*' of the first '*/' at or after index n, 0 if none
CloseIdxFrom(s, n) ==
    LET hits == {i \in n..(Len(s) - 1) : s[i] = "*" /\ s[i + 1] = "/"}
    IN  IF hits = {} THEN 0 ELSE CHOOSE i \in hits : \A j \in hits : i <= j

OpensComment(s) == Len(s) >= 2 /\ s[1] = "/" /\ s[2] = "*"

\* s is white space and closed comments only
RECURSIVE SpaceAndComments(_)
SpaceAndComments(s) ==
    IF s = <<>>
    THEN TRUE
    ELSE IF Head(s) \in spaceChars
    THEN SpaceAndComments(Tail(s))
    ELSE /\ OpensComment(s)
         /\ CloseIdxFrom(s, 3) > 0
         /\ SpaceAndComments(After(s, CloseIdxFrom(s, 3) + 1))

\* some '/*' of s has no '*/' after it
HasUnclosedComment(s) ==
    \E i \in 1..(Len(s) - 1) :
        /\ s[i] = "/" /\ s[i + 1] = "*"
        /\ CloseIdxFrom(s, i + 2) = 0

-----------------------------------------------------------------------------

\* C11: for every input in which a '/*' is not followed by a
\* '*/', the run ends with the Error item 'unclosed comment'.
C11_AnyUnclosedComment ==
    (HasUnclosedComment(input) /\ Done) => LastIsError("unclosed comment")

\* C12: an input of white space and closed comments only yields no item:
\* none is delivered, none is offered, and run leaves its loop only to
\* close the channel.
C12_NothingFromSpaceAndComments ==
    SpaceAndComments(input) =>
        /\ received = <<>>
        /\ ~dropped
        /\ item = NoItem
        /\ pc \in {"run", "closed"}
        /\ state \in {"lexAny", "lexComment", nil}

C12_Witness ==
    /\ Closed
    /\ SpaceAndComments(input)
    /\ CloseIdxFrom(input, 1) > 0
    /\ \E i \in 1..Len(input) : input[i] \in spaceChars
    /\ received = <<>>

-----------------------------------------------------------------------------
(* Selector lists, read off the text of the input.                         *)

\* the parts of s between its commas
RECURSIVE PartsOf(_)
PartsOf(s) ==
    IF FirstIdx(s, ",") = 0
    THEN <<s>>
    ELSE <<Until(s, FirstIdx(s, ","))>> \o PartsOf(After(s, FirstIdx(s, ",")))

\* s is a comma-separated list of selectors followed by one block
SelectorList(s) ==
    LET i == FirstIdx(s, "{")
        j == FirstIdx(s, "}")
    IN  /\ i > 1
        /\ j > i
        /\ j = Len(s)
        /\ \A k \in 1..Len(PartsOf(Until(s, i))) :
               SelectorText(PartsOf(Until(s, i))[k])
        /\ BodyText(SubSeq(s, i + 1, j - 1))

\* C13: a comma-separated list of N selectors followed by one block yields
\* N Selector items, in order, each with the trimmed text of its part, then
\* one BlockStart, and no other Selector or BlockStart item.
C13_SelectorList ==
    SelectorList(input) =>
        LET parts == PartsOf(Until(input, FirstIdx(input, "{")))
            N     == Len(parts)
        IN  /\ ~dropped
            /\ \A k \in 1..Len(received) :
                   /\ k <= N => /\ received[k].typ = ItemSelector
                                /\ received[k].val = Trim(parts[k])
                   /\ k = N + 1 => received[k].typ = ItemBlockStart
                   /\ k > N + 1 =>
                          received[k].typ \notin {ItemSelector, ItemBlockStart}
            /\ Done => Len(received) > N

-----------------------------------------------------------------------------
(* At-rules, read off the text of the input.                               *)

\* s is '@ident body;' and nothing else: the ident runs up to the first
\* space, the body from there up to the ';'
AtRuleStatement(s) ==
    LET i == FirstIdx(s, " ")
    IN  /\ s # <<>>
        /\ s[1] = atRuleStart
        /\ i > 2
        /\ FirstIdx(s, ";") = Len(s)
        /\ \A k \in 1..Len(s) : s[k] \notin {"{", "}"}
        /\ \A k \in 1..(i - 1) : s[k] \notin spaceChars
        /\ NoComment(s)
        /\ ValidUTF8(s)

\* C14: an at-rule '@ident body;' with nothing after it yields AtRuleIdent
\* with the text '@ident', then AtRuleBody with the trimmed body, and then
\* the channel is closed with no further item.
C14_AtRuleStatement ==
    AtRuleStatement(input) =>
        LET i == FirstIdx(input, " ")
            expected ==
                <<Tok(ItemAtRuleIdent, Until(input, i)),
                  Tok(ItemAtRule, Trim(SubSeq(input, i, Len(input) - 1)))>>
        IN  /\ ~dropped
            /\ IsPrefix(Texts(received), expected)
            /\ Done => Texts(received) = expected

\* the offset at which the ident of the AtRuleIdent item i ends
IdentEnd(i) == i.pos + IndexRune(input, i.pos, " ")

\* no ';' and no '{' at or after offset p
NoBodyEnd(p) == \A k \in (p + 1)..Len(input) : input[k] \notin {";", openBlock}

\* C15: when the input ends after an at-rule ident with no ';' and no '{'
\* behind it, the item after that AtRuleIdent is the Error 'missing at-rule
\* body', it is the last one, and the run does not end before it is sent.
C15_MissingBody ==
    ~dropped =>
        \A k \in 1..Len(received) :
            (received[k].typ = ItemAtRuleIdent /\ NoBodyEnd(IdentEnd(received[k])))
            => /\ k < Len(received) =>
                      /\ k + 1 = Len(received)
                      /\ LastIsError("missing at-rule body")
               /\ k = Len(received) =>
                      /\ ~Done
                      /\ pc = "send" =>
                             item = ErrorItem("missing at-rule body")

C15_Witness ==
    /\ Closed
    /\ Len(received) = 2
    /\ received[1].typ = ItemAtRuleIdent
    /\ NoBodyEnd(IdentEnd(received[1]))
    /\ IdentEnd(received[1]) < Len(input)
    /\ LastIsError("missing at-rule body")

\* the items sent so far: those delivered and the one being offered
Sent == IF pc = "send" THEN Append(received, item) ELSE received

HasColon(v) == \E k \in 1..Len(v) : v[k] = ruleSep

\* C16: the text of every Declaration item contains a ':'; a statement
\* without one, such as the empty statement between ';;', yields no
\* Declaration, so there are never more Declaration items than ':' bytes.
C16_DeclarationHasColon ==
    /\ \A k \in 1..Len(Sent) :
           Sent[k].typ = ItemDecl => HasColon(Sent[k].val)
    /\ ~dropped =>
           Cardinality({k \in 1..Len(Sent) : Sent[k].typ = ItemDecl})
               <= Count(input, ruleSep)

C16_Witness ==
    /\ Closed
    /\ \E k \in 1..(Len(input) - 1) : input[k] = ";" /\ input[k + 1] = ";"
    /\ Kinds(received) =
           <<ItemSelector, ItemBlockStart, ItemDecl, ItemBlockEnd>>
    /\ HasColon(received[3].val)

\* offset p does not fall between the two bytes of a rune
OnBoundary(p) ==
    ~(p >= 1 /\ p < Len(input) /\ input[p] = "C3" /\ input[p + 1] = "A9")

C18_CursorOrder ==
    /\ [](0 <= start /\ start <= pos /\ pos <= Len(input))
    /\ [][(pc = "send" /\ cont # "errorf" /\ pc' # "send")
          => (start' = pos' /\ pos' = pos)]_vars

C18_Witness ==
    /\ pc = "lexSelector:194"
    /\ received # <<>>
    /\ received[Len(received)].typ = ItemSelector
    /\ received[Len(received)].pos < start
    /\ start = pos
    /\ pos < Len(input)

\* the offset just past the first '*/' behind the '/*' at offset p, -1 if
\* there is none
PastComment(p) ==
    IF CloseIdxFrom(input, p + 3) = 0
    THEN -1
    ELSE CloseIdxFrom(input, p + 3) + 1

\* C19: the step of lexComment over a closed comment sends and offers no
\* item, leaves inBlock and inAtBlock as they are, sets start and pos to
\* the offset just past the '*/', and returns the state that ran before
\* lexComment, which is lexAny and never lexComment itself.
C19_CommentTransparent ==
    [][(/\ pc = "run"
        /\ state = "lexComment"
        /\ PastComment(pos) >= 0
        /\ consumer' = consumer)
       => /\ received' = received
          /\ dropped' = dropped
          /\ pc' = "run"
          /\ item' = NoItem
          /\ inBlock' = inBlock
          /\ inAtBlock' = inAtBlock
          /\ start' = PastComment(pos)
          /\ pos' = PastComment(pos)
          /\ state' = lstate
          /\ state' = "lexAny"]_vars

\* just past a closed comment inside an at-rule block, the next comment
\* following at once
C19_Witness ==
    /\ pc = "run"
    /\ state = "lexAny"
    /\ lstate = "lexComment"
    /\ inAtBlock
    /\ ~inBlock
    /\ received # <<>>
    /\ start = pos
    /\ pos >= 4
    /\ input[pos - 1] = "*" /\ input[pos] = "/"
    /\ OpensComment(After(input, pos))
    /\ CloseIdxFrom(input, pos + 3) > 0

\* the number of items of kind t among the first k items sent
CountKind(t, k) == Cardinality({j \in 1..k : Sent[j].typ = t})

\* a BlockStart among the first k items sent has no BlockEnd yet
Unmatched(k) == CountKind(ItemBlockStart, k) = CountKind(ItemBlockEnd, k) + 1

\* C20: in every prefix of the items sent BlockStart and BlockEnd alternate,
\* BlockStart first; a Declaration comes only while a BlockStart is
\* unmatched, a Selector only while none is; and inBlock is true exactly
\* while a BlockStart is unmatched.
C20_BlocksAlternate ==
    ~dropped =>
        /\ \A k \in 1..Len(Sent) :
               /\ CountKind(ItemBlockEnd, k) <= CountKind(ItemBlockStart, k)
               /\ CountKind(ItemBlockStart, k)
                      <= CountKind(ItemBlockEnd, k) + 1
               /\ Sent[k].typ = ItemBlockStart => ~Unmatched(k - 1)
               /\ Sent[k].typ = ItemBlockEnd => Unmatched(k - 1)
               /\ Sent[k].typ = ItemDecl => Unmatched(k - 1)
               /\ Sent[k].typ = ItemSelector => ~Unmatched(k - 1)
        /\ inBlock <=> Unmatched(Len(Sent))

C20_Witness ==
    /\ Closed
    /\ ~dropped
    /\ ~inBlock
    /\ CountKind(ItemBlockStart, Len(Sent)) = 2
    /\ CountKind(ItemBlockEnd, Len(Sent)) = 2
    /\ CountKind(ItemDecl, Len(Sent)) >= 2
    /\ CountKind(ItemSelector, Len(Sent)) >= 2

====
